---- MODULE Spec2Model ----
(***************************************************************************)
(* The test scheduler of test_scripts/test_main.py: the priority list      *)
(* (TestPriorityList), the run queue (a queue.PriorityQueue of TestSetup   *)
(* objects ordered by TestSetup.__lt__), the worker threads                *)
(* (thread_target), the report counters (TestReport) and main().           *)
(***************************************************************************)
EXTENDS Integers, Sequences, FiniteSets, TLC

\* ------------------------------------------------------------------ bounds
MaxThreads == 2        \* pargs.threads ranges over 1..MaxThreads
MaxTasks == 2          \* a setup holds 0..MaxTasks tests
MaxDur == 2            \* a test's end_time - start_time ranges over 1..MaxDur
MaxLines == 2          \* lines of the test_priority_list file in a ledger run

\* sys.maxsize; the largest integer TLC represents stands for 2^63 - 1
MaxSize == 2147483647

AllKeys == {"A", "B", "C"}
NoKey == "-"
NoThread == 0
Threads == 1..MaxThreads

\* ------------------------------------------------------------ sequences
SeqsUpTo(S, n) == UNION {[1..k -> S] : k \in 0..n}

Range(s) == {s[i] : i \in 1..Len(s)}

RECURSIVE SumSeq(_)
SumSeq(s) == IF s = <<>> THEN 0 ELSE s[1] + SumSeq(Tail(s))

\* ------------------------------------------------- queue.PriorityQueue
\* a comparison the wrong way round
Gt(pr, a, b) == pr[a] > pr[b]

\* TestSetup.__lt__: only the priority attribute is compared
Lt(pr, a, b) == pr[a] < pr[b]

\* heapq._siftdown(heap, startpos, pos), positions 0-based as in heapq
RECURSIVE SiftDownLoop(_, _, _, _, _)
SiftDownLoop(pr, heap, startpos, pos, newitem) ==
    IF pos > startpos
    THEN LET parentpos == (pos - 1) \div 2
             parent == heap[parentpos + 1]
         IN  IF Lt(pr, newitem, parent)
             THEN SiftDownLoop(pr, [heap EXCEPT ![pos + 1] = parent],
                               startpos, parentpos, newitem)
             ELSE [heap EXCEPT ![pos + 1] = newitem]
    ELSE [heap EXCEPT ![pos + 1] = newitem]

SiftDown(pr, heap, startpos, pos) ==
    SiftDownLoop(pr, heap, startpos, pos, heap[pos + 1])

\* heapq._siftup(heap, pos): bubble the smaller child up to a leaf, then
\* sift the displaced item down from there
RECURSIVE SiftUpLoop(_, _, _, _, _, _)
SiftUpLoop(pr, heap, startpos, pos, childpos, newitem) ==
    IF childpos < Len(heap)
    THEN LET rightpos == childpos + 1
             cp == IF rightpos < Len(heap)
                      /\ ~Lt(pr, heap[childpos + 1], heap[rightpos + 1])
                   THEN rightpos ELSE childpos
         IN  SiftUpLoop(pr, [heap EXCEPT ![pos + 1] = heap[cp + 1]],
                        startpos, cp, 2 * cp + 1, newitem)
    ELSE SiftDown(pr, [heap EXCEPT ![pos + 1] = newitem], startpos, pos)

SiftUp(pr, heap, pos) ==
    SiftUpLoop(pr, heap, pos, pos, 2 * pos + 1, heap[pos + 1])

\* PriorityQueue._put: heappush
HeapPush(pr, heap, item) == SiftDown(pr, Append(heap, item), 0, Len(heap))

\* PriorityQueue._get: heappop, the item returned
HeapTop(heap) == heap[1]

\* a heappop that returns the top but takes the last item off the heap
HeapPopLast(pr, heap) == SubSeq(heap, 1, Len(heap) - 1)

\* PriorityQueue._get: heappop, the heap left behind
HeapPop(pr, heap) ==
    LET lastelt == heap[Len(heap)]
        h == SubSeq(heap, 1, Len(heap) - 1)
    IN  IF h # <<>> THEN SiftUp(pr, [h EXCEPT ![1] = lastelt], 0) ELSE h

RECURSIVE PutAll(_, _, _)
PutAll(pr, heap, items) ==
    IF items = <<>> THEN heap
    ELSE PutAll(pr, HeapPush(pr, heap, items[1]), Tail(items))

\* ------------------------------------------------------ TestPriorityList
\* A line of the priority file: a key, possibly wrapped in white space;
\* key "" is a blank line.
Line(k) == [key |-> k, ws |-> FALSE]

\* str.strip() of a line
Strip(line) == line.key

NoFile == [exists |-> FALSE, lines |-> <<>>]
FileOf(ls) == [exists |-> TRUE, lines |-> ls]

EmptyMap == [k \in {} |-> 0]

\* TestPriorityList.__init__: the key on each non-blank line gets the running
\* count, a later line of the same key overwriting the earlier one
RECURSIVE LoadLines(_, _, _)
LoadLines(lines, map, count) ==
    IF lines = <<>> THEN map
    ELSE LET setup_key == Strip(lines[1])
         IN  IF setup_key # ""
             THEN LoadLines(Tail(lines),
                            [k \in DOMAIN map \cup {setup_key} |->
                                IF k = setup_key THEN count ELSE map[k]],
                            count + 1)
             ELSE LoadLines(Tail(lines), map, count)

\* a load that ranks a key by the number of its line, blank lines counted
LoadByLine(f) ==
    IF f.exists
    THEN [key \in {Strip(f.lines[k]) : k \in 1..Len(f.lines)} \ {""} |->
            (CHOOSE k \in 1..Len(f.lines) :
                /\ Strip(f.lines[k]) = key
                /\ \A j \in (k + 1)..Len(f.lines) : Strip(f.lines[j]) # key) - 1]
    ELSE EmptyMap

Load(f) == IF f.exists THEN LoadLines(f.lines, EmptyMap, 0) ELSE EmptyMap

\* a set_test_setup_priority that puts an unknown key first
SetupPriorityFirst(map, key) == IF key \in DOMAIN map THEN map[key] ELSE 0

\* TestPriorityList.set_test_setup_priority: the priority given to a key
SetupPriority(map, key) == IF key \in DOMAIN map THEN map[key] ELSE MaxSize

\* sorted(setup_durations, key=lambda x: x[1]): a stable ascending sort,
\* as the insertion of each item after the items not greater than it
RECURSIVE InsertByDur(_, _)
InsertByDur(sorted, item) ==
    IF sorted = <<>> THEN <<item>>
    ELSE IF item[2] < sorted[Len(sorted)][2]
         THEN Append(InsertByDur(SubSeq(sorted, 1, Len(sorted) - 1), item),
                     sorted[Len(sorted)])
         ELSE Append(sorted, item)

RECURSIVE SortByDur(_)
SortByDur(items) ==
    IF items = <<>> THEN <<>>
    ELSE InsertByDur(SortByDur(SubSeq(items, 1, Len(items) - 1)),
                     items[Len(items)])

\* the loop of update_priorities: position in the sorted list is the rank,
\* a key met again overwrites its earlier rank
RECURSIVE RankKeys(_, _, _)
RankKeys(keys, map, count) ==
    IF keys = <<>> THEN map
    ELSE RankKeys(Tail(keys),
                  [k \in DOMAIN map \cup {keys[1]} |->
                      IF k = keys[1] THEN count ELSE map[k]],
                  count + 1)

\* a new_priority_map whose sort puts equal durations in reverse order
NewPriorityMapUnstable(setup_durations) ==
    LET n == Len(setup_durations)
        sorted == SortByDur([i \in 1..n |-> setup_durations[n + 1 - i]])
    IN  RankKeys([i \in 1..n |-> sorted[i][1]], EmptyMap, 0)

\* TestPriorityList.update_priorities: new_priority_map from the
\* (key, duration) pairs of the setups
NewPriorityMap(setup_durations) ==
    LET sorted == SortByDur(setup_durations)
    IN  RankKeys([i \in 1..Len(sorted) |-> sorted[i][1]], EmptyMap, 0)

\* TestPriorityList.write: sorted(items, key=rank, reverse=True), one key a
\* line. Ranks of a map are distinct, so the order is the descending one.
RECURSIVE LinesByRankDesc(_)
LinesByRankDesc(map) ==
    IF DOMAIN map = {} THEN <<>>
    ELSE LET top == CHOOSE k \in DOMAIN map :
                        \A j \in DOMAIN map : map[j] <= map[k]
         IN  <<Line(top)>> \o
             LinesByRankDesc([k \in DOMAIN map \ {top} |-> map[k]])

\* a write() that sorts without reverse=True
RECURSIVE LinesByRankAsc(_)
LinesByRankAsc(map) ==
    IF DOMAIN map = {} THEN <<>>
    ELSE LET low == CHOOSE k \in DOMAIN map :
                        \A j \in DOMAIN map : map[k] <= map[j]
         IN  <<Line(low)>> \o
             LinesByRankAsc([k \in DOMAIN map \ {low} |-> map[k]])

\* the lines write() prints
WriteLines(map) == LinesByRankDesc(map)

\* ------------------------------------------------------------------ state
VARIABLES
    nthreads,          \* pargs.threads
    setups,            \* main: the list of TestSetup objects, by key
    plan,              \* per setup, the result each test's run() will give
    report,            \* pargs.report is not None
    file,              \* the test_priority_list file
    priority_map,      \* TestPriorityList._priority_map
    updated,           \* TestPriorityList._updated
    updated_attr,      \* TestPriorityList.updated, the attribute write() sets
    elapsed,           \* per setup, each test's end_time - start_time
    write_priorities,  \* main: the full test set is being run
    missing_files,     \* main: the setups that reported missing files
    priority,          \* TestSetup.priority
    tstate,            \* per setup, the state of each test
    test_run_queue,    \* the heap of the PriorityQueue
    unfinished_tasks,  \* Queue.unfinished_tasks
    num_tests, num_passed, num_failed, num_skipped, num_active,
    failed_tests, skipped_tests,
    lock,              \* TestReport.lock: the thread holding it
    testing_complete,  \* TestReport.testing_complete
    report_file,       \* the blocks appended to pargs.report
    mpc,               \* where main() is
    started,           \* threads main has started so far
    pc,                \* where each thread_target is
    cur,               \* thread_target: test_setup
    idx,               \* thread_target: position of the for loop
    passed,            \* thread_target: passed
    tmp,               \* a thread's counter values read under the lock
    popped,            \* history: keys in the order get() returned them
    acked,             \* history: keys in the order task_done() was called
    events,            \* history: calls received per test
    ops                \* history: the last two calls made on the priority list

inputVars == <<nthreads, setups, plan, report>>
ledgerVars == <<file, priority_map, updated, updated_attr>>
queueVars == <<test_run_queue, unfinished_tasks>>
countVars == <<num_tests, num_passed, num_failed, num_skipped, num_active,
               failed_tests, skipped_tests>>
threadVars == <<pc, cur, idx, passed, tmp>>
histVars == <<popped, acked, events>>
vars == <<inputVars, ops, ledgerVars, elapsed, write_priorities, missing_files,
          priority, tstate, queueVars, countVars, lock, testing_complete,
          report_file, mpc, started, threadVars, histVars>>

Outcomes == {"pass", "fail"}
NoEvents == [started |-> 0, run |-> 0, completed |-> 0, skipped |-> 0]
NoTmp == <<0, 0>>

NumTests(c) == Len(plan[c])

\* everything but the inputs, the file and main's position, before main runs
Fresh ==
    /\ priority_map = EmptyMap
    /\ updated = FALSE
    /\ updated_attr = "unset"
    /\ elapsed = [c \in AllKeys |-> <<>>]
    /\ write_priorities = FALSE
    /\ missing_files = {}
    /\ priority = [c \in AllKeys |-> 0]
    /\ tstate = [c \in AllKeys |-> [i \in 1..Len(plan[c]) |-> "PENDING"]]
    /\ test_run_queue = <<>>
    /\ unfinished_tasks = 0
    /\ num_tests = 0 /\ num_passed = 0 /\ num_failed = 0
    /\ num_skipped = 0 /\ num_active = 0
    /\ failed_tests = <<>> /\ skipped_tests = <<>>
    /\ lock = NoThread
    /\ testing_complete = FALSE
    /\ report_file = <<>>
    /\ started = 0
    /\ pc = [w \in Threads |-> "idle"]
    /\ cur = [w \in Threads |-> NoKey]
    /\ idx = [w \in Threads |-> 0]
    /\ passed = [w \in Threads |-> TRUE]
    /\ tmp = [w \in Threads |-> NoTmp]
    /\ popped = <<>>
    /\ acked = <<>>
    /\ events = [c \in AllKeys |-> [i \in 1..Len(plan[c]) |-> NoEvents]]
    /\ ops = <<>>

\* The outcomes run() would have for the tests of a setup. The for loop
\* never calls run() of a test that follows a failed one, so what such a
\* test would do is left at "pass": drawing it would only repeat each run.
Plans ==
    {p \in SeqsUpTo(Outcomes, MaxTasks) :
        \A i \in 1..Len(p) : \A j \in 1..Len(p) :
            (i < j /\ p[i] = "fail") => p[j] = "pass"}

\* the state a run of main() starts from, for the given choices of the inputs
RunInit(setupChoices, fileChoices, threadChoices) ==
    /\ nthreads \in threadChoices
    /\ setups \in setupChoices
    /\ plan \in [AllKeys -> Plans]
    /\ \A c \in AllKeys \ Range(setups) : plan[c] = <<>>
    /\ report \in BOOLEAN
    /\ file \in fileChoices
    /\ mpc = "load"
    /\ Fresh

\* ------------------------------------------------------------------ main()
\* priority_list = TestPriorityList('test_priority_list'): a file that is
\* there is opened and read without a try, so one that cannot be opened or
\* decoded raises out of the constructor and out of main
MainLoad ==
    /\ mpc = "load"
    /\ \E readable \in BOOLEAN :
          IF file.exists /\ ~readable
          THEN mpc' = "crashed" /\ UNCHANGED <<priority_map, updated>>
          ELSE /\ priority_map' = Load(file)
               /\ updated' = FALSE
               /\ mpc' = "build"
    /\ UNCHANGED <<inputVars, ops, file, updated_attr, elapsed, write_priorities,
                   missing_files, priority, tstate, queueVars, countVars, lock,
                   testing_complete, report_file, started, threadVars, histVars>>

\* the loop building the setups: each setup gets its priority from the list;
\* any missing file ends main with a ValueError before anything is run
\* a main that goes on whatever is missing
AfterBuildGoesOn(m) == "testing_started"

\* "if len(missing_files) > 0: raise ValueError"
AfterBuild(m) == IF m # {} THEN "aborted" ELSE "testing_started"

MainBuild ==
    /\ mpc = "build"
    /\ \E m \in SUBSET Range(setups) :
          /\ missing_files' = m
          /\ mpc' = AfterBuild(m)
    /\ priority' = [c \in AllKeys |->
                      IF c \in Range(setups)
                      THEN SetupPriority(priority_map, c) ELSE priority[c]]
    /\ UNCHANGED <<inputVars, ops, ledgerVars, elapsed, write_priorities, tstate,
                   queueVars, countVars, lock, testing_complete, report_file,
                   started, threadVars, histVars>>

\* test_report.setup_testing_started(setups): the report header is written
\* under the lock; a report that cannot be opened ends the process
MainTestingStarted ==
    /\ mpc = "testing_started"
    /\ lock = NoThread
    /\ \E ok \in BOOLEAN :
          IF report /\ ~ok
          THEN mpc' = "exited" /\ UNCHANGED report_file
          ELSE /\ mpc' = "put"
               /\ report_file' = IF report THEN Append(report_file, <<"header">>)
                                 ELSE report_file
    /\ UNCHANGED <<inputVars, ops, ledgerVars, elapsed, write_priorities,
                   missing_files, priority, tstate, queueVars, countVars, lock,
                   testing_complete, started, threadVars, histVars>>

\* a put loop that does not leave out the setups without tests
QueuedAll(ss) == ss

\* the setups main puts on the queue: those with at least one test
Queued(ss) == SelectSeq(ss, LAMBDA c : NumTests(c) # 0)

\* for setup in setups: test_run_queue.put(setup)
MainPut ==
    /\ mpc = "put"
    /\ test_run_queue' = PutAll(priority, test_run_queue, Queued(setups))
    /\ unfinished_tasks' = unfinished_tasks + Len(Queued(setups))
    /\ mpc' = "start_threads"
    /\ UNCHANGED <<inputVars, ops, ledgerVars, elapsed, write_priorities,
                   missing_files, priority, tstate, countVars, lock,
                   testing_complete, report_file, started, threadVars,
                   histVars>>

\* one round of the loop that creates and starts the threads
MainStartThread ==
    /\ mpc = "start_threads"
    /\ started' = started + 1
    /\ pc' = [pc EXCEPT ![started + 1] = "loop"]
    /\ mpc' = IF started + 1 = nthreads THEN "join" ELSE mpc
    /\ UNCHANGED <<inputVars, ops, ledgerVars, elapsed, write_priorities,
                   missing_files, priority, tstate, queueVars, countVars, lock,
                   testing_complete, report_file, cur, idx, passed, tmp,
                   histVars>>

\* a join() that returns without waiting
JoinReturnsAtOnce == TRUE

\* test_run_queue.join() returns once no put item is left unfinished
JoinReturns == unfinished_tasks = 0

MainJoin ==
    /\ mpc = "join"
    /\ JoinReturns
    /\ mpc' = "drained"
    /\ UNCHANGED <<inputVars, ops, ledgerVars, elapsed, write_priorities,
                   missing_files, priority, tstate, queueVars, countVars, lock,
                   testing_complete, report_file, started, threadVars,
                   histVars>>

\* test_report.testing_complete = True
MainSetComplete ==
    /\ mpc = "drained"
    /\ testing_complete' = TRUE
    /\ mpc' = "join_threads"
    /\ UNCHANGED <<inputVars, ops, ledgerVars, elapsed, write_priorities,
                   missing_files, priority, tstate, queueVars, countVars, lock,
                   report_file, started, threadVars, histVars>>

\* a thread.join() that returns without waiting
ThreadEndedAtOnce(w) == TRUE

\* thread.join() returns: thread_target has returned or raised
ThreadEnded(w) == pc[w] \in {"exit", "dead"}

\* for thread in thread_pool: thread.join()
MainJoinThreads ==
    /\ mpc = "join_threads"
    /\ \A w \in 1..nthreads : ThreadEnded(w)
    /\ mpc' = "update"
    /\ UNCHANGED <<inputVars, ops, ledgerVars, elapsed, write_priorities,
                   missing_files, priority, tstate, queueVars, countVars, lock,
                   testing_complete, report_file, started, threadVars,
                   histVars>>

\* setup_durations of update_priorities: each setup's key with the sum of
\* its tests' elapsed times (an empty sum is timedelta(), zero)
SetupDurations(ss, el) ==
    [i \in 1..Len(ss) |-> <<ss[i], SumSeq(el[ss[i]])>>]

\* an update_priorities that takes the new map without comparing
UpdatePrioritiesAlways(map, upd, setup_durations) ==
    [map |-> NewPriorityMap(setup_durations), updated |-> TRUE]

\* an update_priorities that updates the map in place, keeping old keys
UpdatePrioritiesMerging(map, upd, setup_durations) ==
    LET new_priority_map == NewPriorityMap(setup_durations)
    IN  IF new_priority_map # map
        THEN [map |-> [k \in DOMAIN map \cup DOMAIN new_priority_map |->
                          IF k \in DOMAIN new_priority_map
                          THEN new_priority_map[k] ELSE map[k]],
              updated |-> TRUE]
        ELSE [map |-> map, updated |-> upd]

\* TestPriorityList.update_priorities: the map and the _updated flag after it
UpdatePriorities(map, upd, setup_durations) ==
    LET new_priority_map == NewPriorityMap(setup_durations)
    IN  IF new_priority_map # map
        THEN [map |-> new_priority_map, updated |-> TRUE]
        ELSE [map |-> map, updated |-> upd]

\* a write() that does not look at _updated
WriteAlways(f, map, upd) == FileOf(WriteLines(map))

\* TestPriorityList.write: the file after it
Write(f, map, upd) == IF upd THEN FileOf(WriteLines(map)) ELSE f

\* a write() that clears the flag it tested
UpdatedCleared(upd) == FALSE

\* TestPriorityList.write: _updated after it; the assignment at the end of
\* write() is to another attribute, so _updated keeps its value
UpdatedAfterWrite(upd) == upd

\* TestPriorityList.write: "self.updated = False" sets the attribute updated
WriteAttr(attr, upd) == IF upd THEN "False" ELSE attr

\* a main that looks at write_priorities alone
ShouldUpdateAnyResult(wp) == wp

\* the condition under which main updates and writes the priority list
ShouldUpdate(wp) == wp /\ num_passed = num_tests

ElapsedOf(c) == [1..NumTests(c) -> 1..MaxDur]

\* "if write_priorities and num_passed == num_tests": update_priorities and
\* write. Each test's run() stamped its start and end time; nothing reads
\* them before this point, so the elapsed times are drawn here.
MainUpdatePriorities ==
    /\ mpc = "update"
    /\ \E wp \in BOOLEAN :
          /\ write_priorities' = wp
          /\ IF ShouldUpdate(wp)
             THEN \E ea \in ElapsedOf("A"), eb \in ElapsedOf("B"),
                     ec \in ElapsedOf("C") :
                    LET el == [c \in AllKeys |->
                                 IF c = "A" THEN ea
                                 ELSE IF c = "B" THEN eb ELSE ec]
                        l == UpdatePriorities(priority_map, updated,
                                              SetupDurations(setups, el))
                    IN  /\ elapsed' = el
                        /\ priority_map' = l.map
                        /\ updated' = UpdatedAfterWrite(l.updated)
                        /\ file' = Write(file, l.map, l.updated)
                        /\ updated_attr' = WriteAttr(updated_attr, l.updated)
             ELSE UNCHANGED <<ledgerVars, elapsed>>
    /\ mpc' = "finish"
    /\ UNCHANGED <<inputVars, ops, missing_files, priority, tstate, queueVars,
                   countVars, lock, testing_complete, report_file, started,
                   threadVars, histVars>>

\* test_report.testing_completed(): the summary is appended to the report
MainTestingCompleted ==
    /\ mpc = "finish"
    /\ report_file' = IF report THEN Append(report_file, <<"summary">>)
                      ELSE report_file
    /\ mpc' = "done"
    /\ UNCHANGED <<inputVars, ops, ledgerVars, elapsed, write_priorities,
                   missing_files, priority, tstate, queueVars, countVars, lock,
                   testing_complete, started, threadVars, histVars>>

\* ---------------------------------------------------------- thread_target
\* a reporter whose methods do not wait for the lock
LockIgnored(w) == TRUE

\* "with self.lock": the lock can be taken by thread w
LockFree(w) == lock = NoThread

\* a for loop that ends after its first round
AfterFirstTest(c, i) == "setup_completed"

\* where the for loop goes after the test at position i of setup c
AfterTest(c, i) == IF i < NumTests(c) THEN "for" ELSE "setup_completed"

\* a for loop that stays on the same test
SameTest(i) == i

\* "for test in test_setup.tests": the next test
NextTest(i) == i + 1

Bump(f, c, i, field) ==
    [f EXCEPT ![c][i] = [@ EXCEPT ![field] = @ + 1]]

\* a thread that does not set "passed" when it takes a setup
PassedKept(w) == passed[w]

\* the value of "passed" a thread starts a setup with
PassedAtStart(w) == TRUE

\* One round of "while not test_report.testing_complete": the thread ends
\* when the flag is set; otherwise test_run_queue.get(timeout=2) hands it
\* the setup at the top of the heap, followed by "passed = True", or raises
\* Empty, which sends it back to the loop condition. main sets the flag
\* only after join(), when the queue is empty for good, so a get between
\* the thread's read of the flag and the write finds what it finds here.
\* thread_target returns when it leaves the loop and its locals go with it.
WorkerGet(w) ==
    /\ pc[w] = "loop"
    /\ IF testing_complete
       THEN /\ pc' = [pc EXCEPT ![w] = "exit"]
            /\ cur' = [cur EXCEPT ![w] = NoKey]
            /\ idx' = [idx EXCEPT ![w] = 0]
            /\ passed' = [passed EXCEPT ![w] = TRUE]
            /\ UNCHANGED <<test_run_queue, popped>>
       ELSE IF test_run_queue # <<>>
       THEN /\ cur' = [cur EXCEPT ![w] = HeapTop(test_run_queue)]
            /\ test_run_queue' = HeapPop(priority, test_run_queue)
            /\ idx' = [idx EXCEPT ![w] = 1]
            /\ passed' = [passed EXCEPT ![w] = PassedAtStart(w)]
            /\ popped' = Append(popped, HeapTop(test_run_queue))
            /\ pc' = [pc EXCEPT ![w] = AfterTest(HeapTop(test_run_queue), 0)]
       ELSE UNCHANGED <<pc, test_run_queue, cur, idx, passed, popped>>
    /\ UNCHANGED <<inputVars, ops, ledgerVars, elapsed, write_priorities,
                   missing_files, priority, tstate, unfinished_tasks, countVars,
                   lock, testing_complete, report_file, mpc, started, tmp,
                   acked, events>>

\* a for loop that never takes the skip branch
TakesSkipNever(w) == FALSE

\* a for loop whose "passed" is one variable shared by all the threads
TakesSkipShared(w) == \E v \in Threads : ~passed[v]

\* "if not passed": the branch the for loop takes for a test
TakesSkip(w) == ~passed[w]

\* test_report.test_skipped(test): the lock is taken, the counter read
WorkerSkipEnter(w) ==
    /\ pc[w] = "for"
    /\ TakesSkip(w)
    /\ LockFree(w)
    /\ lock' = w
    /\ tmp' = [tmp EXCEPT ![w] = <<num_skipped, 0>>]
    /\ pc' = [pc EXCEPT ![w] = "skipping"]
    /\ UNCHANGED <<inputVars, ops, ledgerVars, elapsed, write_priorities,
                   missing_files, priority, tstate, queueVars, countVars,
                   testing_complete, report_file, mpc, started, cur, idx,
                   passed, histVars>>

\* test_skipped: the counter and the list are written, the lock released
WorkerSkipLeave(w) ==
    /\ pc[w] = "skipping"
    /\ num_skipped' = tmp[w][1] + 1
    /\ skipped_tests' = Append(skipped_tests, <<cur[w], idx[w]>>)
    /\ tstate' = [tstate EXCEPT ![cur[w]][idx[w]] = "SKIPPED"]
    /\ events' = Bump(events, cur[w], idx[w], "skipped")
    /\ lock' = NoThread
    /\ tmp' = [tmp EXCEPT ![w] = NoTmp]
    /\ idx' = [idx EXCEPT ![w] = NextTest(@)]
    /\ pc' = [pc EXCEPT ![w] = AfterTest(cur[w], idx[w])]
    /\ UNCHANGED <<inputVars, ops, ledgerVars, elapsed, write_priorities,
                   missing_files, priority, queueVars, num_tests, num_passed,
                   num_failed, num_active, failed_tests, testing_complete,
                   report_file, mpc, started, cur, passed, popped, acked>>

\* test_report.test_started(test): the lock is taken, the counters read
WorkerStartedEnter(w) ==
    /\ pc[w] = "for"
    /\ ~TakesSkip(w)
    /\ LockFree(w)
    /\ lock' = w
    /\ tmp' = [tmp EXCEPT ![w] = <<num_tests, num_active>>]
    /\ pc' = [pc EXCEPT ![w] = "starting"]
    /\ UNCHANGED <<inputVars, ops, ledgerVars, elapsed, write_priorities,
                   missing_files, priority, tstate, queueVars, countVars,
                   testing_complete, report_file, mpc, started, cur, idx,
                   passed, histVars>>

\* test_started: the counters are written, the lock released
WorkerStartedLeave(w) ==
    /\ pc[w] = "starting"
    /\ num_tests' = tmp[w][1] + 1
    /\ num_active' = tmp[w][2] + 1
    /\ events' = Bump(events, cur[w], idx[w], "started")
    /\ lock' = NoThread
    /\ tmp' = [tmp EXCEPT ![w] = NoTmp]
    /\ pc' = [pc EXCEPT ![w] = "run"]
    /\ UNCHANGED <<inputVars, ops, ledgerVars, elapsed, write_priorities,
                   missing_files, priority, tstate, queueVars, num_passed,
                   num_failed, num_skipped, failed_tests, skipped_tests,
                   testing_complete, report_file, mpc, started, cur, idx,
                   passed, popped, acked>>

\* passed = test.run(): the call is made and blocks
WorkerRunCall(w) ==
    /\ pc[w] = "run"
    /\ tstate' = [tstate EXCEPT ![cur[w]][idx[w]] = "RUNNING"]
    /\ events' = Bump(events, cur[w], idx[w], "run")
    /\ pc' = [pc EXCEPT ![w] = "running"]
    /\ UNCHANGED <<inputVars, ops, ledgerVars, elapsed, write_priorities,
                   missing_files, priority, queueVars, countVars, lock,
                   testing_complete, report_file, mpc, started, cur, idx,
                   passed, tmp, popped, acked>>

\* an unexpected fault inside test.run(): one of the two ways a test whose
\* result is failure fails. run() is not part of thread_target; by its
\* contract the fault is caught inside it and turned into a failure of that
\* test, which run() then returns as any other failure. (thread_target has
\* no try around the call: a fault that came out of run() would end the
\* thread before task_done().)
WorkerRunRaise(w) ==
    /\ pc[w] = "running"
    /\ plan[cur[w]][idx[w]] = "fail"
    /\ tstate' = [tstate EXCEPT ![cur[w]][idx[w]] = "FAILED"]
    /\ pc' = [pc EXCEPT ![w] = "caught"]
    /\ UNCHANGED <<inputVars, ops, ledgerVars, elapsed, write_priorities,
                   missing_files, priority, queueVars, countVars, lock,
                   testing_complete, report_file, mpc, started, cur, idx,
                   passed, tmp, histVars>>

\* test.run() returns: the test holds its result, which is also returned
WorkerRunReturn(w) ==
    /\ pc[w] \in {"running", "caught"}
    /\ LET result == pc[w] = "running" /\ plan[cur[w]][idx[w]] = "pass"
       IN  /\ tstate' = [tstate EXCEPT ![cur[w]][idx[w]] =
                            IF result THEN "PASSED" ELSE "FAILED"]
           /\ passed' = [passed EXCEPT ![w] = result]
    /\ pc' = [pc EXCEPT ![w] = "completed"]
    /\ UNCHANGED <<inputVars, ops, ledgerVars, elapsed, write_priorities,
                   missing_files, priority, queueVars, countVars, lock,
                   testing_complete, report_file, mpc, started, cur, idx,
                   tmp, histVars>>

\* a test_completed that leaves num_active as it is
ActiveKept(n) == n

\* test_completed: "self.num_active -= 1"
ActiveAfterCompleted(n) == n - 1

\* test_report.test_completed(test): the lock is taken, the counters read
WorkerCompletedEnter(w) ==
    /\ pc[w] = "completed"
    /\ LockFree(w)
    /\ lock' = w
    /\ tmp' = [tmp EXCEPT ![w] =
                 <<num_active,
                   IF tstate[cur[w]][idx[w]] = "PASSED"
                   THEN num_passed ELSE num_failed>>]
    /\ pc' = [pc EXCEPT ![w] = "completing"]
    /\ UNCHANGED <<inputVars, ops, ledgerVars, elapsed, write_priorities,
                   missing_files, priority, tstate, queueVars, countVars,
                   testing_complete, report_file, mpc, started, cur, idx,
                   passed, histVars>>

\* test_completed: the counters (and the list of failed tests) are written,
\* the lock released; the for loop moves on
WorkerCompletedLeave(w) ==
    /\ pc[w] = "completing"
    /\ num_active' = ActiveAfterCompleted(tmp[w][1])
    /\ IF tstate[cur[w]][idx[w]] = "PASSED"
       THEN /\ num_passed' = tmp[w][2] + 1
            /\ UNCHANGED <<num_failed, failed_tests>>
       ELSE /\ num_failed' = tmp[w][2] + 1
            /\ failed_tests' = Append(failed_tests, <<cur[w], idx[w]>>)
            /\ UNCHANGED num_passed
    /\ events' = Bump(events, cur[w], idx[w], "completed")
    /\ lock' = NoThread
    /\ tmp' = [tmp EXCEPT ![w] = NoTmp]
    /\ idx' = [idx EXCEPT ![w] = NextTest(@)]
    /\ pc' = [pc EXCEPT ![w] = AfterTest(cur[w], idx[w])]
    /\ UNCHANGED <<inputVars, ops, ledgerVars, elapsed, write_priorities,
                   missing_files, priority, tstate, queueVars, num_tests,
                   num_skipped, skipped_tests, testing_complete, report_file,
                   mpc, started, cur, passed, popped, acked>>

\* test_setup_completed with a report file: the lock is taken
WorkerReportEnter(w) ==
    /\ pc[w] = "setup_completed"
    /\ report
    /\ LockFree(w)
    /\ lock' = w
    /\ pc' = [pc EXCEPT ![w] = "reporting"]
    /\ UNCHANGED <<inputVars, ops, ledgerVars, elapsed, write_priorities,
                   missing_files, priority, tstate, queueVars, countVars,
                   testing_complete, report_file, mpc, started, cur, idx,
                   passed, tmp, histVars>>

\* test_setup_completed: the setup's block is appended to the report and the
\* lock released; a report that cannot be opened or written raises, which
\* releases the lock and ends the thread
WorkerReportLeave(w) ==
    /\ pc[w] = "reporting"
    /\ lock' = NoThread
    /\ \E ok \in BOOLEAN :
          IF ok
          THEN /\ report_file' = Append(report_file, <<"setup", cur[w]>>)
               /\ pc' = [pc EXCEPT ![w] = "task_done"]
          ELSE /\ pc' = [pc EXCEPT ![w] = "dead"]
               /\ UNCHANGED report_file
    /\ UNCHANGED <<inputVars, ops, ledgerVars, elapsed, write_priorities,
                   missing_files, priority, tstate, queueVars, countVars,
                   testing_complete, mpc, started, cur, idx, passed, tmp,
                   histVars>>

\* test_run_queue.task_done(); without a report file the call of
\* test_setup_completed before it tests pargs.report and returns
WorkerTaskDone(w) ==
    /\ \/ pc[w] = "task_done"
       \/ pc[w] = "setup_completed" /\ ~report
    /\ unfinished_tasks' = unfinished_tasks - 1
    /\ acked' = Append(acked, cur[w])
    /\ pc' = [pc EXCEPT ![w] = "loop"]
    /\ UNCHANGED <<inputVars, ops, ledgerVars, elapsed, write_priorities,
                   missing_files, priority, tstate, test_run_queue, countVars,
                   lock, testing_complete, report_file, mpc, started, cur, idx,
                   passed, tmp, popped, events>>

\* ---------------------------------------------------------- the full run
Setups2 == {<<"A", "B">>}
Files2 == {FileOf(<<Line("B"), Line("A")>>)}

Init == RunInit(Setups2, Files2, 1..MaxThreads)

Next ==
    \/ MainLoad
    \/ MainBuild
    \/ MainTestingStarted
    \/ MainPut
    \/ MainStartThread
    \/ MainJoin
    \/ MainSetComplete
    \/ MainJoinThreads
    \/ MainUpdatePriorities
    \/ MainTestingCompleted
    \/ \E w \in Threads :
          \/ WorkerGet(w)
          \/ WorkerSkipEnter(w)
          \/ WorkerSkipLeave(w)
          \/ WorkerStartedEnter(w)
          \/ WorkerStartedLeave(w)
          \/ WorkerRunCall(w)
          \/ WorkerRunReturn(w)
          \/ WorkerRunRaise(w)
          \/ WorkerCompletedEnter(w)
          \/ WorkerCompletedLeave(w)
          \/ WorkerReportEnter(w)
          \/ WorkerReportLeave(w)
          \/ WorkerTaskDone(w)

Spec == Init /\ [][Next]_vars

\* the steps of main() and the steps of the thread w
MainSteps ==
    \/ MainLoad
    \/ MainBuild
    \/ MainTestingStarted
    \/ MainPut
    \/ MainStartThread
    \/ MainJoin
    \/ MainSetComplete
    \/ MainJoinThreads
    \/ MainUpdatePriorities
    \/ MainTestingCompleted
ThreadSteps(w) ==
    \/ WorkerGet(w)
    \/ WorkerSkipEnter(w)
    \/ WorkerSkipLeave(w)
    \/ WorkerStartedEnter(w)
    \/ WorkerStartedLeave(w)
    \/ WorkerRunCall(w)
    \/ WorkerRunReturn(w)
    \/ WorkerRunRaise(w)
    \/ WorkerCompletedEnter(w)
    \/ WorkerCompletedLeave(w)
    \/ WorkerReportEnter(w)
    \/ WorkerReportLeave(w)
    \/ WorkerTaskDone(w)

\* The run under a fair scheduler: main and every thread started are
\* threads of the interpreter, each of which gets to run when it can go on
\* (a get() with a timeout wakes up, a released lock is taken by a waiting
\* thread sooner or later), and run() returns. Which way a write of the
\* report goes is not the scheduler's choice.
SpecFair ==
    /\ Init
    /\ [][Next]_vars
    /\ WF_vars(MainSteps)
    /\ \A w \in Threads : WF_vars(ThreadSteps(w))

\* ------------------------------------------------- the single-thread run
Setups3 == {<<"A", "B", "C">>}
Files3 == {NoFile, FileOf(<<Line("C")>>)}

InitSingle == RunInit(Setups3, Files3, {1})

SpecSingle == InitSingle /\ [][Next]_vars

\* ------------------------------------------- the priority list on its own
\* The calls main makes on a TestPriorityList, in any order: the constructor
\* (again for the next run), set_test_setup_priority, update_priorities and
\* write, on a file of up to MaxLines lines.
Padded(k) == [key |-> k, ws |-> TRUE]
LedgerLines == {Line("A"), Padded("B"), Line("Z"), Line("")}
LedgerFiles == {NoFile} \cup {FileOf(ls) : ls \in SeqsUpTo(LedgerLines, MaxLines)}
LedgerSetups == {<<"A", "B">>, <<"A", "B", "C">>}

InitLedger ==
    /\ nthreads = 1
    /\ setups \in LedgerSetups
    /\ plan = [c \in AllKeys |-> IF c \in Range(setups) THEN <<"pass">> ELSE <<>>]
    /\ report = FALSE
    /\ file \in LedgerFiles
    /\ mpc = "no_list"
    /\ Fresh

\* the last two calls
PushOp(o) == IF Len(ops) < 2 THEN Append(ops, o) ELSE Append(Tail(ops), o)

\* priority_list = TestPriorityList('test_priority_list') at the start of a
\* run, whose setups are new objects (priority 0, tests without times)
LedgerLoad ==
    /\ priority_map' = Load(file)
    /\ updated' = FALSE
    /\ updated_attr' = "unset"
    /\ priority' = [c \in AllKeys |-> 0]
    /\ elapsed' = [c \in AllKeys |-> <<>>]
    /\ mpc' = "list"
    /\ ops' = PushOp("load")
    /\ UNCHANGED <<inputVars, file, write_priorities, missing_files, tstate,
                   queueVars, countVars, lock, testing_complete, report_file,
                   started, threadVars, histVars>>

\* priority_list.set_test_setup_priority(setup), for each setup as in main
LedgerAssign ==
    /\ mpc = "list"
    /\ priority' = [c \in AllKeys |->
                      IF c \in Range(setups)
                      THEN SetupPriority(priority_map, c) ELSE priority[c]]
    /\ ops' = PushOp("assign")
    /\ UNCHANGED <<inputVars, ledgerVars, elapsed, write_priorities,
                   missing_files, tstate, queueVars, countVars, lock,
                   testing_complete, report_file, mpc, started, threadVars,
                   histVars>>

\* priority_list.update_priorities(setups), on the elapsed times of a run
LedgerUpdate ==
    /\ mpc = "list"
    /\ \E ea \in ElapsedOf("A"), eb \in ElapsedOf("B"), ec \in ElapsedOf("C") :
          LET el == [c \in AllKeys |->
                       IF c = "A" THEN ea ELSE IF c = "B" THEN eb ELSE ec]
              l == UpdatePriorities(priority_map, updated,
                                    SetupDurations(setups, el))
          IN  /\ elapsed' = el
              /\ priority_map' = l.map
              /\ updated' = l.updated
    /\ ops' = PushOp("update")
    /\ UNCHANGED <<inputVars, file, updated_attr, write_priorities,
                   missing_files, priority, tstate, queueVars, countVars, lock,
                   testing_complete, report_file, mpc, started, threadVars,
                   histVars>>

\* priority_list.write()
LedgerWrite ==
    /\ mpc = "list"
    /\ file' = Write(file, priority_map, updated)
    /\ updated_attr' = WriteAttr(updated_attr, updated)
    /\ updated' = UpdatedAfterWrite(updated)
    /\ ops' = PushOp("write")
    /\ UNCHANGED <<inputVars, priority_map, elapsed, write_priorities,
                   missing_files, priority, tstate, queueVars, countVars, lock,
                   testing_complete, report_file, mpc, started, threadVars,
                   histVars>>

NextLedger == LedgerLoad \/ LedgerAssign \/ LedgerUpdate \/ LedgerWrite

SpecLedger == InitLedger /\ [][NextLedger]_vars

\* ================================================================ claims
Terminal == {"PASSED", "FAILED", "SKIPPED"}
AfterJoin == {"drained", "join_threads", "update", "finish", "done"}
AfterPut == {"start_threads", "join"} \cup AfterJoin
Chains == Range(setups)
QueuedChains == {c \in Chains : NumTests(c) # 0}
Tasks(c) == 1..NumTests(c)

\* the for loop of the thread that took setup c has ended
LoopOver(c) ==
    \/ c \in Range(acked)
    \/ \E w \in Threads : cur[w] = c /\ idx[w] > NumTests(c)

\* the key was not in the priority list when main gave the setup its priority
Absent(c) == priority[c] = MaxSize

\* position of a setup in main's list, the order of the puts
PutIndex(c) == CHOOSE i \in 1..Len(setups) : setups[i] = c

\* the state the plan alone gives a test: passed up to the first failure,
\* failed there, skipped after it
FirstFail(p) ==
    IF \E i \in 1..Len(p) : p[i] = "fail"
    THEN CHOOSE i \in 1..Len(p) :
            p[i] = "fail" /\ \A j \in 1..(i - 1) : p[j] = "pass"
    ELSE Len(p) + 1
PlannedState(p, i) ==
    IF i < FirstFail(p) THEN "PASSED"
    ELSE IF i = FirstFail(p) THEN "FAILED" ELSE "SKIPPED"
PlannedCount(st) ==
    Cardinality({<<c, i>> \in AllKeys \X (1..MaxTasks) :
                    i <= NumTests(c) /\ PlannedState(plan[c], i) = st})

\* C1. In a setup whose test k is the first to fail, the tests before k
\* have passed, no test after k is ever started or run, and once the
\* setup's for loop has ended every test after k is SKIPPED, each by one
\* call of test_skipped.
C1_SkipAfterFailure ==
    \A c \in Chains : \A k \in Tasks(c) :
        tstate[c][k] = "FAILED" =>
            /\ \A i \in 1..(k - 1) : tstate[c][i] = "PASSED"
            /\ \A j \in (k + 1)..NumTests(c) :
                  /\ tstate[c][j] \in {"PENDING", "SKIPPED"}
                  /\ events[c][j].started = 0
                  /\ events[c][j].run = 0
                  /\ events[c][j].completed = 0
                  /\ LoopOver(c) =>
                        tstate[c][j] = "SKIPPED" /\ events[c][j].skipped = 1

C1_Witness ==
    \E c \in Chains :
        /\ NumTests(c) = MaxTasks
        /\ tstate[c][1] = "FAILED"
        /\ \A j \in 2..NumTests(c) : tstate[c][j] = "SKIPPED"
        /\ c \in Range(acked)
        /\ nthreads = MaxThreads

\* C2. After join() has returned and testing_completed() has run,
\* num_passed + num_failed + num_skipped = num_tests.
C2_CountersAddUp ==
    mpc = "done" => num_passed + num_failed + num_skipped = num_tests

\* C3. Once join() has returned in main, num_active is 0.
C3_NoneActiveAfterJoin ==
    mpc \in AfterJoin => num_active = 0

C3_Witness ==
    /\ mpc = "drained"
    /\ nthreads = MaxThreads
    /\ Len(acked) = 2
    /\ num_tests >= 2

\* the run of C4: one thread, setups A, B, C of equal priority,
\* A = [pass, pass], B = [fail, any], C = [pass]
EndToEnd ==
    /\ nthreads = 1
    /\ setups = <<"A", "B", "C">>
    /\ \A c \in Chains : priority[c] = priority["A"]
    /\ plan["A"] = <<"pass", "pass">>
    /\ Len(plan["B"]) = 2 /\ plan["B"][1] = "fail"
    /\ plan["C"] = <<"pass">>

OneOfBSkipped ==
    Cardinality({i \in Tasks("B") : tstate["B"][i] = "SKIPPED"}) = 1

\* C4 as stated. The end-to-end run ends with num_tests = 4,
\* num_passed = 2, num_failed = 1, num_skipped = 1 and one test of B skipped.
C4_AsStated ==
    (mpc = "done" /\ EndToEnd) =>
        /\ num_tests = 4 /\ num_passed = 2
        /\ num_failed = 1 /\ num_skipped = 1
        /\ OneOfBSkipped

\* C4. The end-to-end run ends with num_tests = 4, num_passed = 3,
\* num_failed = 1, num_skipped = 1 and exactly one test of B skipped.
C4_EndToEnd ==
    (mpc = "done" /\ EndToEnd) =>
        /\ num_tests = 4 /\ num_passed = 3
        /\ num_failed = 1 /\ num_skipped = 1
        /\ OneOfBSkipped

C4_Witness == mpc = "done" /\ EndToEnd /\ popped = <<"A", "B", "C">>

\* C5. For tests with fixed pass/fail results, a finished run leaves every
\* test in the state the plan alone gives it, and the counters at the
\* numbers the plan alone gives, whatever the number of threads and their
\* interleaving.
C5_OutcomeDeterminism ==
    mpc = "done" =>
        /\ \A c \in Chains : \A i \in Tasks(c) :
              tstate[c][i] = PlannedState(plan[c], i)
        /\ num_passed = PlannedCount("PASSED")
        /\ num_failed = PlannedCount("FAILED")
        /\ num_skipped = PlannedCount("SKIPPED")

\* several threads, both setups failing, the setup taken second failing first
C5_Witness ==
    /\ mpc = "done"
    /\ nthreads = MaxThreads
    /\ popped = <<"B", "A">>
    /\ Len(failed_tests) = 2
    /\ failed_tests[1][1] = "A"
    /\ num_skipped >= 1

\* ------------------------------------------------ claims on the list
LastOp == IF ops = <<>> THEN "none" ELSE ops[Len(ops)]

\* a load() that follows a write()
LoadAfterWrite == LastOp = "write" /\ LastOp' = "load"

\* a load() that follows update_priorities() and then write()
LoadAfterUpdateWrite == ops = <<"update", "write">> /\ LastOp' = "load"

\* the duration update_priorities() was given for a setup
Duration(c) == SumSeq(elapsed[c])

\* the map with every rank r turned into n - 1 - r
Reversed(map) ==
    [k \in DOMAIN map |-> Cardinality(DOMAIN map) - 1 - map[k]]

\* C6. After update_priorities() with the durations of a run and then
\* write(), a load() gives a setup of strictly greater duration a strictly
\* smaller rank than a setup of smaller duration.
C6_LongestFirst ==
    [][LoadAfterUpdateWrite =>
          \A x \in Chains : \A y \in Chains :
              Duration(x) > Duration(y) =>
                  /\ x \in DOMAIN priority_map'
                  /\ y \in DOMAIN priority_map'
                  /\ priority_map'[x] < priority_map'[y]]_vars

\* C7 as stated. write() followed by load() gives a map equal to the one
\* held at the write(), also when the list was dirty after
\* update_priorities().
C7_AsStated ==
    [][LoadAfterWrite => priority_map' = priority_map]_vars

\* C7. write() followed by load() gives a map equal to the one held at the
\* write() when the list was not dirty; when it was dirty, the loaded map
\* has the same keys with every rank r turned into n - 1 - r.
C7_RoundTrip ==
    [][LoadAfterWrite =>
          /\ ~updated => priority_map' = priority_map
          /\ updated => priority_map' = Reversed(priority_map)]_vars

\* a load() after a write() of a map only update_priorities() can give
C7_Witness ==
    /\ ops = <<"write", "load">>
    /\ DOMAIN priority_map = {"A", "B", "C"}
    /\ file.exists

\* ----------------------------------------------- claims on the queue
\* C8 as stated. With one thread, every setup whose key is absent from
\* the list has been taken from the queue and run when main ends, and no
\* setup with an absent key is taken before a setup whose key is present.
C8_AsStated ==
    (nthreads = 1) =>
        /\ mpc = "done" =>
              \A c \in Chains : Absent(c) =>
                  /\ c \in Range(popped)
                  /\ \E i \in 1..MaxTasks : events[c][i].run = 1
        /\ \A i \in 1..Len(popped) : \A j \in (i + 1)..Len(popped) :
              ~(Absent(popped[i]) /\ ~Absent(popped[j]))

\* C8. With one thread, every setup with at least one test is put on the
\* queue; every such setup whose key is absent from the list has been
\* taken and its first test run when main ends; and no setup with an
\* absent key is taken before a setup whose key is present.
C8_AbsentKeyLast ==
    (nthreads = 1) =>
        /\ mpc \in AfterPut =>
              \A c \in QueuedChains :
                  c \in Range(test_run_queue) \cup Range(popped)
        /\ mpc = "done" =>
              \A c \in QueuedChains : Absent(c) =>
                  /\ c \in Range(popped)
                  /\ c \in Range(acked)
                  /\ events[c][1].run = 1
        /\ \A i \in 1..Len(popped) : \A j \in (i + 1)..Len(popped) :
              ~(Absent(popped[i]) /\ ~Absent(popped[j]))

C8_Witness ==
    /\ nthreads = 1
    /\ mpc = "done"
    /\ Len(popped) = 3
    /\ ~Absent(popped[1])
    /\ Absent(popped[3])
    /\ Absent("A")

\* C9. Setups of equal priority are taken from the queue in the order
\* they were put on it.
C9_EqualRankFifo ==
    (nthreads = 1) =>
        \A i \in 1..Len(popped) : \A j \in (i + 1)..Len(popped) :
            priority[popped[i]] = priority[popped[j]] =>
                PutIndex(popped[i]) < PutIndex(popped[j])

\* C10. When join() has returned in main, the queue is empty, every setup
\* that was put on it has been taken and acknowledged with task_done(),
\* and every test of those setups is PASSED, FAILED or SKIPPED.
C10_JoinMeansAllDone ==
    mpc \in AfterJoin =>
        /\ test_run_queue = <<>>
        /\ unfinished_tasks = 0
        /\ \A c \in QueuedChains :
              /\ c \in Range(popped)
              /\ c \in Range(acked)
              /\ \A i \in Tasks(c) : tstate[c][i] \in Terminal

C10_Witness ==
    /\ mpc = "drained"
    /\ nthreads = MaxThreads
    /\ Len(popped) = 2
    /\ \E c \in Chains : NumTests(c) = MaxTasks
                          /\ tstate[c][MaxTasks] = "SKIPPED"
    /\ \E c \in Chains : NumTests(c) = MaxTasks
                          /\ tstate[c][MaxTasks] = "PASSED"

\* ------------------------------------------------ claims on the threads
NoDuplicates(s) == \A i \in 1..Len(s) : \A j \in (i + 1)..Len(s) : s[i] # s[j]

AllPass(c) == \A i \in Tasks(c) : plan[c][i] = "pass"

\* what holds in a state where faults may have been caught
FaultContained ==
    /\ \A w \in Threads :
          /\ pc[w] = "caught" => tstate[cur[w]][idx[w]] = "FAILED"
          /\ pc[w] = "dead" => idx[w] > NumTests(cur[w])
    /\ \A c \in Chains : \A k \in Tasks(c) :
          tstate[c][k] = "FAILED" =>
              /\ \A j \in (k + 1)..NumTests(c) :
                    /\ tstate[c][j] \in {"PENDING", "SKIPPED"}
                    /\ LoopOver(c) => tstate[c][j] = "SKIPPED"
              /\ mpc \in AfterJoin => c \in Range(acked)
    /\ \A c \in Chains : AllPass(c) =>
          \A i \in Tasks(c) : tstate[c][i] \in {"PENDING", "RUNNING", "PASSED"}

\* what the thread that caught a fault does next
FaultReturned ==
    \A w \in Threads :
        pc[w] = "caught" =>
            \/ pc'[w] = "caught" /\ tstate'[cur[w]] = tstate[cur[w]]
            \/ /\ pc'[w] = "completed"
               /\ ~passed'[w]
               /\ tstate'[cur[w]][idx[w]] = "FAILED"
               /\ cur'[w] = cur[w] /\ idx'[w] = idx[w]

InChain ==
    {"for", "skipping", "starting", "run", "running", "caught", "completed",
     "completing", "setup_completed", "reporting", "task_done"}
Owns(w, c) == pc[w] \in InChain /\ cur[w] = c

\* C13. No setup is returned by get() twice, a setup still on the queue
\* has not been returned, every setup returned and not yet acknowledged is
\* held by exactly one thread, and no two threads are ever between get()
\* and task_done() with the same setup.
C13_ExclusiveOwnership ==
    /\ NoDuplicates(popped)
    /\ Range(popped) \cap Range(test_run_queue) = {}
    /\ \A c \in Range(popped) \ Range(acked) :
          Cardinality({w \in Threads : cur[w] = c}) = 1
    /\ \A c \in Chains :
          Cardinality({w \in Threads : Owns(w, c)}) <= 1
    /\ \A w \in Threads : \A c \in Chains :
          Owns(w, c) => c \in Range(popped) \ Range(acked)

\* two threads each running a test of its own setup
C13_Witness ==
    \E w \in Threads : \E v \in Threads :
        /\ w # v
        /\ pc[w] = "running" /\ pc[v] = "running"
        /\ cur[w] = "A" /\ cur[v] = "B"
        /\ idx[w] = MaxTasks

\* ---------------------------------------------- claims on main's steps
\* C14. After the list has been loaded, its map, its dirty flag and its
\* file change only in main's update step, and only when write_priorities
\* is set (all tests of all setups were asked for) and every test of every
\* setup has passed; with a test FAILED or SKIPPED, or without
\* write_priorities, all three are left as they are.
C14_UpdateOnlyAfterFullSuccess ==
    [][(mpc # "load" /\ <<priority_map, updated, file>>' #
                            <<priority_map, updated, file>>) =>
          /\ mpc = "update"
          /\ write_priorities'
          /\ \A c \in Chains : \A i \in Tasks(c) : tstate[c][i] = "PASSED"]_vars

\* main past its update step with write_priorities set, a test failed and
\* one skipped, and the list as it was loaded
C14_Witness ==
    /\ mpc = "finish"
    /\ write_priorities
    /\ num_failed >= 1
    /\ num_skipped >= 1
    /\ ~updated
    /\ priority_map = Load(file)

\* C15. When any setup reports a missing file, main ends at its check with
\* the missing files of all setups collected: nothing is put on the queue,
\* no thread is started, no report is written and no test is ever started,
\* run or skipped.
C15_MissingFilesAbort ==
    /\ mpc = "aborted" <=> missing_files # {}
    /\ missing_files # {} =>
          /\ test_run_queue = <<>> /\ unfinished_tasks = 0
          /\ started = 0
          /\ \A w \in Threads : pc[w] = "idle"
          /\ popped = <<>>
          /\ report_file = <<>>
          /\ \A c \in Chains : \A i \in Tasks(c) :
                tstate[c][i] = "PENDING" /\ events[c][i] = NoEvents

\* main ended with both setups in the list of missing files
C15_Witness ==
    /\ mpc = "aborted"
    /\ missing_files = {"A", "B"}
    /\ NumTests("A") = MaxTasks

\* a report that could not be written: main left at the header, or a
\* thread ended by the exception in test_setup_completed
SinkFailed == mpc = "exited" \/ \E w \in Threads : pc[w] = "dead"

\* C16. Once the report could not be opened or written, at the header or
\* at a setup's block, the run goes no further: no setup is taken from the
\* queue, no test is started, run, completed or skipped, and nothing more
\* is written to the report.
C16_SinkFailureStopsRun ==
    [][SinkFailed =>
          /\ popped' = popped
          /\ tstate' = tstate
          /\ events' = events
          /\ report_file' = report_file]_vars

\* C17. Loading the priority list never ends main: a file that is missing,
\* cannot be read or cannot be parsed gives an empty map, with which every
\* setup gets the priority sys.maxsize and main goes on.
C17_LoadNeverFatal ==
    /\ mpc # "crashed"
    /\ (mpc = "build" /\ ~file.exists) => priority_map = EmptyMap
    /\ (mpc = "testing_started" /\ ~file.exists) =>
          \A c \in Chains : priority[c] = MaxSize

\* C18. A test's outcome depends on the results of its own setup alone: a
\* test that is PASSED, FAILED or SKIPPED is in the state its setup's plan
\* gives it, whatever the other setups did. In particular no test of a
\* setup without failures is ever FAILED or SKIPPED, each of them has been
\* started, run and completed just once and is PASSED when the setup is
\* acknowledged, and the setup is acknowledged when join() returns.
C18_FailureIsolation ==
    /\ \A c \in Chains : \A i \in Tasks(c) :
          tstate[c][i] \in Terminal => tstate[c][i] = PlannedState(plan[c], i)
    /\ \A c \in Chains : AllPass(c) =>
          /\ \A i \in Tasks(c) :
                /\ tstate[c][i] \in {"PENDING", "RUNNING", "PASSED"}
                /\ events[c][i].skipped = 0
          /\ c \in Range(acked) =>
                \A i \in Tasks(c) :
                    /\ tstate[c][i] = "PASSED"
                    /\ events[c][i] =
                          [started |-> 1, run |-> 1, completed |-> 1,
                           skipped |-> 0]
          /\ (mpc \in AfterJoin /\ NumTests(c) # 0) => c \in Range(acked)

\* the first setup taken has failed at its first test and the other setup,
\* taken after it, has all its tests passed
C18_Witness ==
    /\ mpc = "done"
    /\ Len(popped) = 2
    /\ tstate[popped[1]][1] = "FAILED"
    /\ NumTests(popped[2]) = MaxTasks
    /\ \A i \in Tasks(popped[2]) : tstate[popped[2]][i] = "PASSED"
    /\ failed_tests = <<<<popped[1], 1>>>>

\* C19. get() returns a setup whose priority is no greater than that of
\* any setup still on the queue, and the setups are returned in
\* non-decreasing order of priority, whatever the number of threads.
C19_PopsByPriority ==
    /\ \A i \in 1..Len(popped) : \A j \in 1..Len(test_run_queue) :
          priority[popped[i]] <= priority[test_run_queue[j]]
    /\ \A i \in 1..Len(popped) : \A j \in (i + 1)..Len(popped) :
          priority[popped[i]] <= priority[popped[j]]

\* both setups taken, by different threads, the one put second first
C19_Witness ==
    /\ nthreads = MaxThreads
    /\ Len(popped) = 2
    /\ PutIndex(popped[1]) > PutIndex(popped[2])
    /\ priority[popped[1]] < priority[popped[2]]
    /\ \E w \in Threads : \E v \in Threads :
          w # v /\ cur[w] = popped[1] /\ cur[v] = popped[2]

\* the changes of state a test can make
Lifecycle ==
    {<<"PENDING", "RUNNING">>, <<"RUNNING", "PASSED">>,
     <<"RUNNING", "FAILED">>, <<"PENDING", "SKIPPED">>}

\* C20. A test changes state only from PENDING to RUNNING, from RUNNING to
\* PASSED or FAILED, or from PENDING to SKIPPED, so that a test that is
\* PASSED, FAILED or SKIPPED stays as it is; and a test gets at most one
\* call each of test_started, run, test_completed and test_skipped, and
\* never both test_started and test_skipped.
C20_TaskLifecycle ==
    [][\A c \in Chains : \A i \in Tasks(c) :
          /\ tstate'[c][i] # tstate[c][i] =>
                <<tstate[c][i], tstate'[c][i]>> \in Lifecycle
          /\ events'[c][i].started <= 1
          /\ events'[c][i].run <= 1
          /\ events'[c][i].completed <= 1
          /\ events'[c][i].skipped <= 1
          /\ events'[c][i].started + events'[c][i].skipped <= 1]_vars

\* one setup failed and skipped, the other passed and running, all at once
C20_Witness ==
    \E c \in Chains : \E d \in Chains :
        /\ NumTests(c) = MaxTasks /\ NumTests(d) = MaxTasks
        /\ tstate[c][1] = "FAILED"
        /\ tstate[c][MaxTasks] = "SKIPPED"
        /\ tstate[d][1] = "PASSED"
        /\ tstate[d][MaxTasks] = "RUNNING"

\* the tests of a setup that are in test.run()
RunningTests(c) == {i \in Tasks(c) : tstate[c][i] = "RUNNING"}

\* C21. The tests of a setup run in the order of the list and one at a
\* time: at most one test of a setup is RUNNING, a test is reached only
\* when the test before it has ended, and it is started only when the test
\* before it is PASSED and has had its test_completed call.
C21_InChainOrder ==
    \A c \in Chains :
        /\ Cardinality(RunningTests(c)) <= 1
        /\ \A i \in Tasks(c) \ {1} :
              /\ events[c][i].started + events[c][i].skipped > 0 =>
                    events[c][i - 1].completed + events[c][i - 1].skipped = 1
              /\ (events[c][i].started > 0 \/ tstate[c][i] = "RUNNING") =>
                    /\ tstate[c][i - 1] = "PASSED"
                    /\ events[c][i - 1].completed = 1

\* the second test of one setup running after the first passed, while
\* another thread runs a test of the other setup
C21_Witness ==
    \E c \in Chains : \E d \in Chains \ {c} :
        /\ NumTests(c) = MaxTasks
        /\ tstate[c][MaxTasks] = "RUNNING"
        /\ tstate[c][MaxTasks - 1] = "PASSED"
        /\ RunningTests(d) # {}

\* the pc values of a thread inside "with self.lock" of a TestReport method
InReporter == {"skipping", "starting", "completing", "reporting"}

\* the number of calls of one kind made so far, over all the tests
EventCount(field) ==
    SumSeq([k \in 1..Len(setups) |->
              SumSeq([i \in Tasks(setups[k]) |-> events[setups[k]][i][field]])])

\* the tests that have had test_completed and are in state st
Completed(st) ==
    {<<c, i>> \in AllKeys \X (1..MaxTasks) :
        /\ c \in Chains /\ i \in Tasks(c)
        /\ events[c][i].completed = 1 /\ tstate[c][i] = st}

\* C22. The threads' calls of test_started, test_skipped, test_completed
\* and test_setup_completed do their work holding the one lock: a thread
\* is inside such a call exactly when it holds the lock, so at most one
\* thread is, and no update of a counter is lost: in every state, the
\* last one included, the counters are the numbers of calls made.
C22_ReporterMutualExclusion ==
    /\ \A w \in Threads : pc[w] \in InReporter <=> lock = w
    /\ Cardinality({w \in Threads : pc[w] \in InReporter}) <= 1
    /\ num_tests = EventCount("started")
    /\ num_skipped = EventCount("skipped")
    /\ num_passed = Cardinality(Completed("PASSED"))
    /\ num_failed = Cardinality(Completed("FAILED"))
    /\ num_active = EventCount("started") - EventCount("completed")
    /\ Len(failed_tests) = num_failed
    /\ Len(skipped_tests) = num_skipped

\* one thread inside a call, having read the counter the other thread has
\* already raised, while the other thread stands before its next call
C22_Witness ==
    \E w \in Threads : \E v \in Threads \ {w} :
        /\ lock = w
        /\ pc[w] = "starting"
        /\ tmp[w][1] >= 1
        /\ pc[v] \in {"for", "completed", "setup_completed"}
        /\ cur[v] # NoKey

\* the number of blocks of setup c in the report file
Blocks(c) ==
    Cardinality({k \in 1..Len(report_file) : report_file[k] = <<"setup", c>>})

\* every test of the setup has had its test_completed or test_skipped
AllTestsReported(c) ==
    \A i \in Tasks(c) :
        /\ tstate[c][i] \in Terminal
        /\ events[c][i].completed + events[c][i].skipped = 1

\* C23. With a report file configured, the block of a setup is appended
\* after the last test_completed or test_skipped of the setup and before
\* its task_done(): a setup has at most one block, has it only when all
\* of its tests have been reported, and has exactly one once it is
\* acknowledged; a block that could not be written is that of a setup not
\* yet acknowledged.
C23_BlockBeforeAck ==
    report =>
        \A c \in Chains :
            /\ Blocks(c) <= 1
            /\ Blocks(c) = 1 => AllTestsReported(c)
            /\ c \in Range(acked) => Blocks(c) = 1
            /\ (\E w \in Threads : pc[w] = "dead" /\ cur[w] = c) =>
                  Blocks(c) = 0 /\ c \notin Range(acked)

\* one setup acknowledged with its block in the file, the block of the
\* other lost with its thread
C23_Witness ==
    /\ report
    /\ \E c \in Range(acked) : Blocks(c) = 1
    /\ \E w \in Threads : pc[w] = "dead" /\ Blocks(cur[w]) = 0

\* test_report.testing_completed() has been called
Finalized == mpc = "done"

\* join() has returned and every thread started has ended
Quiesced ==
    /\ unfinished_tasks = 0
    /\ test_run_queue = <<>>
    /\ testing_complete
    /\ started = nthreads
    /\ \A w \in 1..nthreads : pc[w] = "exit"
    /\ lock = NoThread

\* C24. testing_completed(), which writes the summary, is called only
\* after test_run_queue.join() has returned and every thread has ended,
\* and no counter of the TestReport changes from the moment the threads
\* are joined, through the call and after it.
C24_FinalizeLast ==
    [][/\ (mpc = "finish" /\ Finalized') => Quiesced
       /\ Finalized' => Quiesced'
       /\ mpc \in {"update", "finish", "done"} => countVars' = countVars]_vars

\* the summary written at the end of a run of two threads that ran tests
C24_Witness ==
    /\ Finalized
    /\ report
    /\ report_file[Len(report_file)] = <<"summary">>
    /\ nthreads = MaxThreads
    /\ num_tests + num_skipped = NumTests("A") + NumTests("B")
    /\ num_failed >= 1

\* no thread has been started yet
NoneStarted == started = 0 /\ \A w \in Threads : pc[w] = "idle"

\* every thread has been started and has ended
AllEnded == started = nthreads /\ \A w \in 1..nthreads : pc[w] = "exit"

\* C25. The priority list is used by main alone and never while a thread
\* runs: the priorities of the setups are set, and the list loaded, before
\* the first thread is started, and update_priorities() and write() are
\* called after every thread has ended; no step of a thread changes the
\* list, its file or a setup's priority.
C25_LedgerConfined ==
    [][/\ priority' # priority => mpc = "build" /\ NoneStarted
       /\ (priority_map' # priority_map \/ updated' # updated) =>
             \/ mpc = "load" /\ NoneStarted
             \/ mpc = "update" /\ AllEnded
       /\ (file' # file \/ updated_attr' # updated_attr
              \/ elapsed' # elapsed) => mpc = "update" /\ AllEnded
       /\ mpc \in {"load", "build"} => NoneStarted
       /\ mpc = "update" => AllEnded]_vars

\* the list changed and written at the end of a run of two threads
C25_Witness ==
    /\ mpc = "finish"
    /\ nthreads = MaxThreads
    /\ updated
    /\ priority_map # Load(FileOf(<<Line("B"), Line("A")>>))
    /\ updated_attr = "False"
    /\ Len(popped) = 2

\* C26. A thread leaves thread_target only once main has set
\* testing_complete, which main does only after join() has returned: a
\* thread that has ended, in whatever way, implies the flag is set and no
\* put setup is left unfinished.
C26_NoExitBeforeSignal ==
    /\ testing_complete => unfinished_tasks = 0 /\ mpc \in AfterJoin
    /\ \A w \in Threads : ThreadEnded(w) => testing_complete

\* a step that is a call of set_test_setup_priority for each setup
AssignStep == LastOp' = "assign" /\ ops' # ops

\* C27. set_test_setup_priority gives a setup the rank its key has in the
\* list, and a setup whose key is not in the list sys.maxsize, which is
\* greater than every rank in the list; the call changes neither the
\* list, nor its _updated flag, nor the file.
C27_AssignFromLedger ==
    [][AssignStep =>
          /\ \A c \in Chains :
                /\ c \in DOMAIN priority_map => priority'[c] = priority_map[c]
                /\ c \notin DOMAIN priority_map =>
                      /\ priority'[c] = MaxSize
                      /\ \A k \in DOMAIN priority_map :
                            priority_map[k] < priority'[c]
          /\ priority_map' = priority_map
          /\ updated' = updated
          /\ file' = file]_vars

\* a list of two keys, one of them a setup's: that setup has its rank,
\* the other setup the rank of an unknown key
C27_Witness ==
    /\ LastOp = "assign"
    /\ DOMAIN priority_map = {"Z", "A"}
    /\ priority["A"] = 1
    /\ priority["B"] = MaxSize

\* the lines of the file that hold a key, and those before line k
KeyLines == {k \in 1..Len(file.lines) : Strip(file.lines[k]) # ""}
KeyLinesBefore(k) == {j \in KeyLines : j < k}

\* line k is the last line of its key
LastOfKey(k) ==
    \A j \in KeyLines : Strip(file.lines[j]) = Strip(file.lines[k]) => j <= k

\* C28 as stated. After a load, the key of every line that has one has the
\* number of that line, counted from 0, as its rank.
C28_AsStated ==
    LastOp = "load" =>
        \A k \in KeyLines :
            /\ Strip(file.lines[k]) \in DOMAIN priority_map
            /\ priority_map[Strip(file.lines[k])] = k - 1

\* C28. After a load, the keys of the list are the keys of the lines of
\* the file, white space stripped and blank lines left out, and the rank
\* of a key is the number of lines holding a key before the last line that
\* holds it: blank lines are not counted, and of a repeated key the last
\* line is the one that counts.
C28_RankIsCountOfKeyLines ==
    LastOp = "load" =>
        /\ DOMAIN priority_map = {Strip(file.lines[k]) : k \in KeyLines}
        /\ \A k \in KeyLines :
              LastOfKey(k) =>
                  priority_map[Strip(file.lines[k])] =
                      Cardinality(KeyLinesBefore(k))

\* a file loaded whose first line is blank and whose second holds a key
C28_Witness ==
    /\ LastOp = "load"
    /\ Len(file.lines) >= 2
    /\ Strip(file.lines[1]) = ""
    /\ Strip(file.lines[2]) = "A"
    /\ priority_map["A"] = 0

\* a step that is a call of update_priorities(setups)
UpdateStep ==
    LastOp' = "update" /\ (ops' # ops \/ ops = <<"update", "update">>)

\* the map update_priorities computes from the durations it is given
Recomputed == NewPriorityMap(SetupDurations(setups, elapsed'))

\* C29. update_priorities sets _updated only when the map it computes
\* differs from the map of the list, which it then replaces; when the two
\* are equal the map and the flag stay as they were.
C29_DirtyOnlyOnChange ==
    [][UpdateStep =>
          LET new_priority_map == Recomputed
          IN  IF new_priority_map = priority_map
              THEN priority_map' = priority_map /\ updated' = updated
              ELSE priority_map' = new_priority_map /\ updated']_vars

\* a list loaded from a file and found unchanged by update_priorities
C29_Witness ==
    /\ ops = <<"load", "update">>
    /\ ~updated
    /\ DOMAIN priority_map = Chains
    /\ priority_map = NewPriorityMap(SetupDurations(setups, elapsed))

\* C30. After update_priorities the setups have the ranks 0..n-1, a setup
\* of smaller total duration has the smaller rank, and setups of equal
\* total duration have their ranks in the order of the list of setups.
C30_StableAscendingRanks ==
    LastOp = "update" =>
        /\ DOMAIN priority_map = Chains
        /\ {priority_map[c] : c \in Chains} = 0..(Len(setups) - 1)
        /\ \A c \in Chains : \A d \in Chains :
              /\ Duration(c) < Duration(d) =>
                    priority_map[c] < priority_map[d]
              /\ (Duration(c) = Duration(d) /\ PutIndex(c) < PutIndex(d)) =>
                    priority_map[c] < priority_map[d]

\* three setups, the first two of one duration and the third shorter
C30_Witness ==
    /\ LastOp = "update"
    /\ setups = <<"A", "B", "C">>
    /\ Duration("A") = Duration("B")
    /\ Duration("C") < Duration("A")
    /\ priority_map["C"] = 0
    /\ priority_map["A"] = 1
    /\ priority_map["B"] = 2

\* a step that is a call of write()
WriteStep == LastOp' = "write" /\ (ops' # ops \/ ops = <<"write", "write">>)

\* C31. write() does nothing when _updated is not set: the file, or its
\* absence, the map and the flag are after the call what they were before.
C31_WriteNoOpUnlessDirty ==
    [][(WriteStep /\ ~updated) =>
          /\ file' = file
          /\ priority_map' = priority_map
          /\ updated' = updated
          /\ updated_attr' = updated_attr]_vars

\* write() called on a list just loaded, whose file is not what write()
\* would print for it
C31_Witness ==
    /\ ops = <<"load", "write">>
    /\ ~updated
    /\ file.exists
    /\ DOMAIN priority_map # {}
    /\ file.lines # WriteLines(priority_map)

\* C32. write() does not clear _updated: after a write() that wrote the
\* file the flag is still set, it is the attribute "updated" that was set
\* to False, and a write() that follows with no update_priorities between
\* writes the file again.
C32_FlagSurvivesWrite ==
    [][(WriteStep /\ updated) =>
          /\ updated'
          /\ updated_attr' = "False"
          /\ file' = FileOf(WriteLines(priority_map))
          /\ priority_map' = priority_map]_vars

\* two writes in a row, both with the flag set
C32_Witness ==
    /\ ops = <<"write", "write">>
    /\ updated
    /\ updated_attr = "False"
    /\ file = FileOf(WriteLines(priority_map))

\* thread w returns from test_report.test_skipped(test) in this step
SkipReturns(w) == pc[w] = "skipping" /\ pc'[w] # "skipping"

\* C33. test_skipped adds one to num_skipped and appends the test to
\* skipped_tests, and leaves num_tests, num_active, num_passed, num_failed
\* and failed_tests as they were, whatever the other threads do meanwhile.
C33_SkippedFrame ==
    [][\A w \in Threads :
          SkipReturns(w) =>
              /\ num_skipped' = num_skipped + 1
              /\ skipped_tests' = Append(skipped_tests, <<cur[w], idx[w]>>)
              /\ num_tests' = num_tests
              /\ num_active' = num_active
              /\ num_passed' = num_passed
              /\ num_failed' = num_failed
              /\ failed_tests' = failed_tests]_vars

\* a test skipped while the other thread has a test running and a test
\* passed
C33_Witness ==
    /\ num_skipped = 1
    /\ Len(skipped_tests) = 1
    /\ num_failed = 1
    /\ num_passed = 1
    /\ num_active = 1
    /\ num_tests = 3

\* the tests that are in state st
TestsIn(st) ==
    {<<c, i>> \in AllKeys \X (1..MaxTasks) :
        c \in Chains /\ i \in Tasks(c) /\ tstate[c][i] = st}

\* C34. failed_tests is as long as num_failed says and skipped_tests as
\* long as num_skipped says, in every state; and once join() has returned
\* failed_tests holds the FAILED tests and skipped_tests the SKIPPED
\* tests, each of them once.
C34_ListsMatchCounters ==
    /\ Len(failed_tests) = num_failed
    /\ Len(skipped_tests) = num_skipped
    /\ mpc \in AfterJoin =>
          /\ NoDuplicates(failed_tests)
          /\ NoDuplicates(skipped_tests)
          /\ Range(failed_tests) = TestsIn("FAILED")
          /\ Range(skipped_tests) = TestsIn("SKIPPED")

\* join() returned from a run of two threads in which the first test of
\* each setup failed and the second was skipped
C34_Witness ==
    /\ mpc = "drained"
    /\ nthreads = MaxThreads
    /\ Len(failed_tests) = 2
    /\ Len(skipped_tests) = 2

\* C35. With run() returning for every test and the threads scheduled
\* fairly, every setup put on the queue is taken and acknowledged in the
\* end, join() returns in the end, and main gets to testing_completed().
C35_RunCompletes ==
    /\ \A c \in AllKeys :
          (c \in Range(test_run_queue)) ~> (c \in Range(acked))
    /\ (mpc = "join") ~> (mpc \in AfterJoin)
    /\ (mpc = "join") ~> Finalized

\* the tests that have had test_started and not yet test_completed
InProgress ==
    {<<c, i>> \in AllKeys \X (1..MaxTasks) :
        /\ c \in Chains /\ i \in Tasks(c)
        /\ events[c][i].started = 1 /\ events[c][i].completed = 0}

\* C36. In every state num_tests = num_passed + num_failed + num_active,
\* num_active lies between 0 and the number of threads, and num_active is
\* the number of tests that have had test_started and not test_completed.
C36_TotalIsPassedFailedActive ==
    /\ num_tests = num_passed + num_failed + num_active
    /\ 0 <= num_active
    /\ num_active <= nthreads
    /\ num_active = Cardinality(InProgress)

\* every thread with a test in progress, after a test that passed
C36_Witness ==
    /\ nthreads = MaxThreads
    /\ num_active = nthreads
    /\ num_passed >= 1
    /\ \E w \in Threads : pc[w] = "running"

\* the list was loaded from a file that is what write() prints for the
\* map update_priorities is about to compute, for two setups or more
LoadedFromOwnWrite ==
    /\ LastOp = "load"
    /\ Len(setups) >= 2
    /\ file.exists
    /\ file.lines = WriteLines(Recomputed)

\* C37. A list loaded from the file a write() left, for two setups or
\* more, is never found unchanged by update_priorities() on the same
\* setups with the same durations: the loaded ranks are the computed ranks
\* reversed, so the map is replaced and _updated set, and the file will be
\* written again.
C37_NoFixedPoint ==
    [][(UpdateStep /\ LoadedFromOwnWrite) =>
          /\ Recomputed # priority_map
          /\ priority_map = Reversed(Recomputed)
          /\ priority_map' = Recomputed
          /\ updated'
          /\ Write(file, priority_map', updated') = file]_vars

\* update_priorities() after the load of a file written for the same map
C37_Witness ==
    /\ ops = <<"load", "update">>
    /\ Len(setups) >= 3
    /\ updated
    /\ file.exists
    /\ file.lines = WriteLines(priority_map)
    /\ Load(file) = Reversed(priority_map)

\* the setups without tests
EmptyChains == Chains \ QueuedChains

\* main has called update_priorities(setups)
Recomputation ==
    mpc \in {"finish", "done"} /\ write_priorities /\ num_passed = num_tests

\* C38. A setup without tests is never put on the queue: it is never
\* taken by a thread, gets no block in the report and no task_done(), and
\* join() does not wait for it. update_priorities() is given it all the
\* same, with a duration of zero, and ranks it with the others.
C38_EmptySetupNotQueued ==
    /\ \A c \in EmptyChains :
          /\ c \notin Range(test_run_queue)
          /\ c \notin Range(popped)
          /\ c \notin Range(acked)
          /\ \A w \in Threads : cur[w] # c
          /\ Blocks(c) = 0
          /\ Recomputation =>
                /\ c \in DOMAIN priority_map
                /\ <<c, 0>> \in Range(SetupDurations(setups, elapsed))
                /\ priority_map =
                      NewPriorityMap(SetupDurations(setups, elapsed))
    /\ mpc \in AfterPut =>
          unfinished_tasks =
              Cardinality(QueuedChains) - Cardinality(Range(acked))

\* a run to its end of a setup with tests and a setup without, the list
\* changed by update_priorities()
C38_Witness ==
    /\ mpc = "done"
    /\ report
    /\ Recomputation
    /\ updated
    /\ \E c \in EmptyChains : priority_map[c] = 0
    /\ Len(acked) = 1
    /\ num_passed = MaxTasks

\* C39. An update_priorities() that changes the map replaces it whole:
\* the keys are then the keys of the setups it was given, no more and no
\* fewer, with the ranks 0..n-1 each once, and a key the list held that is
\* not a setup's is gone.
C39_BulkRewrite ==
    [][(UpdateStep /\ priority_map' # priority_map) =>
          /\ DOMAIN priority_map' = Chains
          /\ {priority_map'[c] : c \in Chains} = 0..(Len(setups) - 1)
          /\ \A c \in Chains : \A d \in Chains :
                priority_map'[c] = priority_map'[d] => c = d
          /\ \A k \in DOMAIN priority_map \ Chains :
                k \notin DOMAIN priority_map']_vars

\* update_priorities() on a list loaded with a key that is no setup's
C39_Witness ==
    /\ ops = <<"load", "update">>
    /\ file.exists
    /\ "Z" \in DOMAIN Load(file)
    /\ "Z" \notin DOMAIN priority_map
    /\ DOMAIN priority_map = Chains
    /\ updated
====
